---- MODULE Spec2Model ----
(***************************************************************************)
(* Model of buoyant/buoy.py: the Buoy station handle (refresh, _get,       *)
(* fetch), the CSV row helpers (parse_unit, _currents, _setup_ndbc_dt)     *)
(* and the Observation value.                                              *)
(*                                                                         *)
(* Python values are records tagged by their type (field t).  A CSV row,   *)
(* as csv.DictReader yields it, is a sequence of cells in column order;    *)
(* a cell is [h |-> header, v |-> value] with pairwise distinct headers.   *)
(* A header is [name |-> n, unit |-> u] and stands for the text "n (u)",   *)
(* or for the text "n" when u = "".  A cell value is Str(s), or None for   *)
(* a column the data line is too short to fill (DictReader's restval).     *)
(* The keys of a row are taken in column order.                            *)
(***************************************************************************)
EXTENDS Integers, Sequences, FiniteSets, TLC

----------------------------------------------------------------------------
(* Bounds of the model *)

MaxRequests == 2

MaxRows == 3

MaxCols == 2

----------------------------------------------------------------------------
(* Python values *)

None == [t |-> "None"]

Absent == [t |-> "Absent"]

Str(s) == [t |-> "str", s |-> s]

PyList(items) == [t |-> "list", items |-> items]

PyDict(m) == [t |-> "dict", m |-> m]

(* An outcome of a call: a returned value, or a raised exception. *)
Return(v) == [exc |-> "", val |-> v]

Raise(e) == [exc |-> e, val |-> Absent]

----------------------------------------------------------------------------
(* Module constants *)

PROPERTIES ==
    << "air_pressure_at_sea_level", "air_temperature", "currents",
       "sea_floor_depth_below_sea_surface",
       "sea_water_electrical_conductivity", "sea_water_salinity",
       "sea_water_temperature", "waves", "winds" >>

CURRENTS_PROPERTIES ==
    << "bin", "depth", "direction_of_sea_water_velocity", "sea_water_speed",
       "upward_sea_water_velocity", "error_velocity", "platform_orientation",
       "platform_pitch_angle", "platform_roll_angle", "sea_water_temperature",
       "pct_good_3_beam", "pct_good_4_beam", "pct_rejected", "pct_bad",
       "echo_intensity_beam1", "echo_intensity_beam2", "echo_intensity_beam3",
       "echo_intensity_beam4", "correlation_magnitude_beam1",
       "correlation_magnitude_beam2", "correlation_magnitude_beam3",
       "correlation_magnitude_beam4", "quality_flags" >>

Range(s) == {s[i] : i \in 1..Len(s)}

PropertySet == Range(PROPERTIES)

CurrentsPropertySet == Range(CURRENTS_PROPERTIES)

SingleRowProperties == PropertySet \ {"currents"}

----------------------------------------------------------------------------
(* Text primitives.  Strings are atoms in TLA+, so the Python text         *)
(* operations the code uses are given by their graphs on the texts that    *)
(* occur in the model.                                                     *)

(* float(text) for the texts float() accepts, in hundredths; every other   *)
(* text makes float() raise ValueError.                                    *)
FloatText ==
    ("30.04" :> 3004) @@ ("32.50" :> 3250) @@ ("32.5" :> 3250) @@
    ("-80.55" :> -8055) @@ ("-79.10" :> -7910) @@
    ("0.00" :> 0) @@ ("1.50" :> 150) @@ ("25.0" :> 2500) @@
    ("1022.1" :> 102210) @@ ("1019.8" :> 101980) @@ ("3" :> 300) @@
    ("7" :> 700)

(* float(x): TypeError for None, ValueError for text that is no number. *)
float(x) ==
    IF x.t # "str" THEN Raise("TypeError")
    ELSE IF x.s \in DOMAIN FloatText
         THEN Return([t |-> "float", v |-> FloatText[x.s]])
         ELSE Raise("ValueError")

(* dt[:-1] and dt[-1:] of the timestamp texts of the model. *)
ChopLast ==
    ("2014-02-19T12:50:00Z" :> "2014-02-19T12:50:00") @@
    ("2014-02-19T13:20:05" :> "2014-02-19T13:20:0") @@
    ("19/02/2014 12:50" :> "19/02/2014 12:5") @@
    ("" :> "")

LastChar ==
    ("2014-02-19T12:50:00Z" :> "Z") @@
    ("2014-02-19T13:20:05" :> "5") @@
    ("19/02/2014 12:50" :> "0") @@
    ("" :> "")

(* datetime.strptime(text, '%Y-%m-%dT%H:%M:%S') for the texts it accepts   *)
(* (%S takes a single digit); every other text raises ValueError.          *)
Strptime ==
    ("2014-02-19T12:50:00" :> <<2014, 2, 19, 12, 50, 0>>) @@
    ("2014-02-19T13:20:0" :> <<2014, 2, 19, 13, 20, 0>>)

(* prop in k, for a property name and a header: the names of the model     *)
(* that contain another name of the model as a proper substring.           *)
ProperSubstring ==
    { <<"depth", "sea_floor_depth_below_sea_surface">> }

In(prop, h) == prop = h.name \/ <<prop, h.name>> \in ProperSubstring

(* 'ows:ExceptionReport' in str(result) *)
ExceptionTexts == { "<ows:ExceptionReport xmlns:ows=\"http://www.opengis.net/ows/1.1\">" }

ContainsExceptionReport(row) ==
    \E i \in 1..Len(row) :
        \/ row[i].h.name \in ExceptionTexts
        \/ row[i].v.t = "str" /\ row[i].v.s \in ExceptionTexts

----------------------------------------------------------------------------
(* Observation(float): the number float(value), the raw text and the unit *)

Observation(value, unit) ==
    LET f == float(value)
    IN  IF f.exc # "" THEN f
        ELSE Return([t |-> "Observation", v |-> f.val.v, raw |-> value.s,
                     unit |-> unit])

(* _setup_ndbc_dt(dt) *)
_setup_ndbc_dt(dt) ==
    IF dt.t # "str" THEN Raise("TypeError")
    ELSE IF ChopLast[dt.s] \notin DOMAIN Strptime THEN Raise("ValueError")
    ELSE Return([t |-> "datetime", d |-> Strptime[ChopLast[dt.s]],
                 tz |-> IF LastChar[dt.s] = "Z" THEN "utc" ELSE "naive"])

(* result.get(key): the value of the cell whose header is key, else None *)
RowGet(row, h) ==
    IF \E i \in 1..Len(row) : row[i].h = h
    THEN row[CHOOSE i \in 1..Len(row) : row[i].h = h].v
    ELSE None

(* bool(value) of a cell value *)
Truthy(value) == value.t = "str" /\ value.s # ""

(* parse_unit(prop, dictionary) *)
parse_unit(prop, dictionary) ==
    LET matches == SelectSeq(dictionary, LAMBDA c : In(prop, c.h))
    IN  IF matches = << >> THEN Return(None)
        ELSE LET value == matches[1].v
                 unit == matches[1].h.unit
             IN  IF unit = "" THEN Return(value)
                 ELSE IF ~Truthy(value) THEN Return(None)
                 ELSE Observation(value, unit)


(* _currents with the entries accumulated in reverse row order *)
RECURSIVE _currents_reversed(_)
_currents_reversed(iterable) ==
    IF iterable = << >> THEN Return(PyList(<< >>))
    ELSE LET row == Head(iterable)
             rest == _currents_reversed(Tail(iterable))
         IN  IF \E prop \in CurrentsPropertySet : parse_unit(prop, row).exc # ""
             THEN Raise("ValueError")
             ELSE IF rest.exc # "" THEN rest
             ELSE Return(PyList(
                    rest.val.items \o
                    << PyDict([prop \in CurrentsPropertySet |->
                                  parse_unit(prop, row).val]) >>))

(* _currents(iterable): one mapping per row, in row order; the first       *)
(* Observation that cannot be built raises out of the comprehension.       *)
RECURSIVE _currents(_)
_currents(iterable) ==
    IF iterable = << >> THEN Return(PyList(<< >>))
    ELSE LET row == Head(iterable)
             rest == _currents(Tail(iterable))
         IN  IF \E prop \in CurrentsPropertySet : parse_unit(prop, row).exc # ""
             THEN Raise("ValueError")
             ELSE IF rest.exc # "" THEN rest
             ELSE Return(PyList(
                    << PyDict([prop \in CurrentsPropertySet |->
                                  parse_unit(prop, row).val]) >>
                    \o rest.val.items))

----------------------------------------------------------------------------
(* The handle.  self.__dict__ is a function from Keys to a value, Absent   *)
(* standing for a key the mapping does not hold.                           *)

IncidentalKeys == {"lat", "lon", "datetime", "station_id", "sensor_id", "depth"}

Keys == PropertySet \cup IncidentalKeys

Hdr(name, unit) == [name |-> name, unit |-> unit]

StationIdHdr == Hdr("station_id", "")

SensorIdHdr == Hdr("sensor_id", "")

LatHdr == Hdr("latitude", "degree")

LonHdr == Hdr("longitude", "degree")

DateTimeHdr == Hdr("date_time", "")

(* refresh that only resets the three fields and keeps the other entries *)
refresh_keeping_entries(self_dict) ==
    [k \in Keys |-> IF k \in {"lat", "lon", "datetime"} THEN None
                    ELSE self_dict[k]]

(* Buoy.refresh: self.__dict__ is replaced by a new mapping *)
refresh(self_dict) ==
    [k \in Keys |-> IF k \in {"lat", "lon", "datetime"} THEN None ELSE Absent]

(* Buoy.fetch, lines 168-175: the try block that sets lon, lat, datetime.  *)
(* TypeError resets the three; any other exception leaves the block with   *)
(* the assignments made so far.                                            *)
SetCoords(d, result) ==
    LET lon == float(RowGet(result, LonHdr))
        lat == float(RowGet(result, LatHdr))
        dt == _setup_ndbc_dt(RowGet(result, DateTimeHdr))
        reset == [d EXCEPT !["lon"] = None, !["lat"] = None,
                           !["datetime"] = None]
        d1 == [d EXCEPT !["lon"] = lon.val]
        d2 == [d1 EXCEPT !["lat"] = lat.val]
        d3 == [d2 EXCEPT !["datetime"] = dt.val]
    IN  IF lon.exc = "TypeError" THEN [exc |-> "", dict |-> reset]
        ELSE IF lon.exc # "" THEN [exc |-> lon.exc, dict |-> d]
        ELSE IF lat.exc = "TypeError" THEN [exc |-> "", dict |-> reset]
        ELSE IF lat.exc # "" THEN [exc |-> lat.exc, dict |-> d1]
        ELSE IF dt.exc = "TypeError" THEN [exc |-> "", dict |-> reset]
        ELSE IF dt.exc # "" THEN [exc |-> dt.exc, dict |-> d2]
        ELSE [exc |-> "", dict |-> d3]

(* Buoy.fetch(observation) on a handle whose mapping is d, the service     *)
(* answering with the data rows `rows` (the lines after the header line,   *)
(* as csv.DictReader yields them).  The result is the outcome, the mapping *)
(* the call leaves behind and the number of HTTP requests it issued.       *)
fetch(d, observation, rows) ==
    IF observation = "currents"
    THEN LET c == _currents(rows)
         IN  [exc |-> c.exc, val |-> c.val, dict |-> d, reqs |-> 1]
    ELSE IF rows = << >>
    THEN [exc |-> "AttributeError", val |-> Absent, dict |-> d, reqs |-> 1]
    ELSE LET result == rows[1]
             ids == [d EXCEPT !["station_id"] = RowGet(result, StationIdHdr),
                              !["sensor_id"] = RowGet(result, SensorIdHdr)]
             co == SetCoords(ids, result)
             depth == parse_unit("depth", result)
             withDepth == [co.dict EXCEPT !["depth"] = depth.val]
             obs == parse_unit(observation, result)
         IN  IF ContainsExceptionReport(result)
             THEN [exc |-> "AttributeError", val |-> Absent, dict |-> d,
                   reqs |-> 1]
             ELSE IF co.exc # ""
             THEN [exc |-> co.exc, val |-> Absent, dict |-> co.dict,
                   reqs |-> 1]
             ELSE IF depth.exc # ""
             THEN [exc |-> depth.exc, val |-> Absent, dict |-> co.dict,
                   reqs |-> 1]
             ELSE [exc |-> obs.exc, val |-> obs.val, dict |-> withDepth,
                   reqs |-> 1]

(* _get that swallows a failed fetch and caches None for the property *)
_get_caching_failure(d, observation, rows) ==
    LET f == fetch(d, observation, rows)
    IN  IF f.exc # ""
        THEN [f EXCEPT !.dict = [f.dict EXCEPT ![observation] = None]]
        ELSE IF f.dict[observation] # Absent
        THEN [f EXCEPT !.val = f.dict[observation]]
        ELSE [f EXCEPT !.dict = [f.dict EXCEPT ![observation] = f.val]]

(* Buoy._get(observation):                                                 *)
(*     self.__dict__.setdefault(observation, self.fetch(observation))      *)
(* The argument self.fetch(observation) is evaluated before setdefault is  *)
(* called, whether or not the key is present.                              *)
_get(d, observation, rows) ==
    LET f == fetch(d, observation, rows)
    IN  IF f.exc # "" THEN f
        ELSE IF f.dict[observation] # Absent
        THEN [f EXCEPT !.val = f.dict[observation]]
        ELSE [f EXCEPT !.dict = [f.dict EXCEPT ![observation] = f.val]]

(* Buoy.coords, Buoy.depth, Buoy.datetime: self.__dict__.get(key) *)
DictGet(d, key) == IF d[key] = Absent THEN None ELSE d[key]

coords(d) == <<DictGet(d, "lat"), DictGet(d, "lon")>>

depth(d) == DictGet(d, "depth")

datetime(d) == DictGet(d, "datetime")

----------------------------------------------------------------------------
(* What the observation endpoint may answer.  A response is the sequence   *)
(* of data rows csv.DictReader yields for its text.                        *)

Cell(h, text) == [h |-> h, v |-> Str(text)]

DepthHdr == Hdr("depth", "m")

(* The column the service reports the property in.  'waves' and 'winds'    *)
(* come as several columns, none of which is named after the property.     *)
ObsHdr(p) ==
    CASE p = "air_pressure_at_sea_level" -> Hdr(p, "hPa")
      [] p = "air_temperature" -> Hdr(p, "C")
      [] p = "sea_floor_depth_below_sea_surface" -> Hdr(p, "m")
      [] p = "sea_water_electrical_conductivity" -> Hdr(p, "mS/cm")
      [] p = "sea_water_salinity" -> Hdr(p, "psu")
      [] p = "sea_water_temperature" -> Hdr(p, "C")
      [] p = "waves" -> Hdr("sea_surface_wave_significant_height", "m")
      [] p = "winds" -> Hdr("wind_speed", "m/s")

(* A text of "-" for lat, lon or dt stands for a response without that     *)
(* column.                                                                 *)
NoColumn == "-"

ObsRow(p, lat, lon, dt, dep, val) ==
    SelectSeq(
      << Cell(StationIdHdr, "urn:ioos:station:wmo:41012"),
         Cell(SensorIdHdr, "urn:ioos:sensor:wmo:41012::baro1"),
         Cell(LatHdr, lat), Cell(LonHdr, lon), Cell(DateTimeHdr, dt),
         Cell(DepthHdr, dep), Cell(ObsHdr(p), val) >>,
      LAMBDA c : c.v.s # NoColumn)

ExceptionReportRow ==
    << Cell(Hdr("<?xml version=\"1.0\" encoding=\"UTF-8\"?>", ""),
            "<ows:ExceptionReport xmlns:ows=\"http://www.opengis.net/ows/1.1\">") >>

ExceptionReport == << ExceptionReportRow >>

NoDataRow == << >>

TimeA == "2014-02-19T12:50:00Z"

TimeB == "2014-02-19T13:20:05"

SingleRowResponses(p) ==
    { << ObsRow(p, "30.04", "-80.55", TimeA, "0.00", "1022.1") >>,
      << ObsRow(p, "32.50", "-79.10", TimeB, "1.50", "1019.8") >>,
      << ObsRow(p, NoColumn, "-80.55", TimeA, "0.00", "1022.1") >>,
      << ObsRow(p, "abc", "-80.55", TimeA, "0.00", "1022.1") >>,
      << ObsRow(p, "30.04", "-80.55", "19/02/2014 12:50", "0.00", "1022.1") >>,
      << ObsRow(p, "30.04", "-80.55", NoColumn, "0.00", "1022.1") >>,
      << ObsRow(p, "30.04", "-80.55", TimeA, "0.00", "") >>,
      ExceptionReport,
      NoDataRow }

CurrentsRow(bin, dep, speed, temp, flags) ==
    << Cell(StationIdHdr, "urn:ioos:station:wmo:41012"),
       Cell(SensorIdHdr, "urn:ioos:sensor:wmo:41012::adcp0"),
       Cell(LatHdr, "30.04"), Cell(LonHdr, "-80.55"),
       Cell(DateTimeHdr, TimeA),
       Cell(Hdr("bin", "count"), bin), Cell(DepthHdr, dep),
       Cell(Hdr("sea_water_speed", "cm/s"), speed),
       Cell(Hdr("sea_water_temperature", "C"), temp),
       Cell(Hdr("quality_flags", ""), flags) >>

CurrentsRows ==
    { CurrentsRow("3", "1.50", "25.0", "30.04", "3;9;3"),
      CurrentsRow("7", "25.0", "", "32.5", ""),
      CurrentsRow("7", "0.00", "1.50", "", "3;9;3"),
      CurrentsRow("7", "25.0", "n/a", "32.5", "3;9;3") }

RECURSIVE SeqsUpTo(_, _)
SeqsUpTo(S, n) ==
    IF n = 0 THEN { << >> }
    ELSE LET shorter == SeqsUpTo(S, n - 1)
         IN  shorter \cup { <<x>> \o q : x \in S, q \in shorter }

CurrentsResponses ==
    { NoDataRow,
      << CurrentsRow("3", "1.50", "25.0", "30.04", "3;9;3"),
         CurrentsRow("7", "25.0", "", "32.5", "") >>,
      << CurrentsRow("7", "25.0", "n/a", "32.5", "3;9;3") >>,
      ExceptionReport }

Responses(p) ==
    IF p = "currents" THEN CurrentsResponses ELSE SingleRowResponses(p)

----------------------------------------------------------------------------
(* State *)

VARIABLES
    id,        \* self.id, the station id given at construction
    dict,      \* self.__dict__
    requests,  \* HTTP requests issued to the observation endpoint so far
    last,      \* the last operation on the handle and its outcome
    src,       \* per property, the response its cache entry was parsed from
    latest,    \* per property, the value of the last fetch that succeeded
    pending,   \* properties whose last get raised on an empty cache entry
    fresh,     \* properties not accessed since the last refresh
    stale,     \* per property, the cache entry the last refresh discarded
    inp,       \* input of the pure function under study
    out        \* its outcome

vars == <<id, dict, requests, last, src, latest, pending, fresh, stale, inp, out>>

StationId == "41012"

EmptyDict == [k \in Keys |-> Absent]

NotRun == [t |-> "NotRun"]

NoResponse == << >>

NoOutcome == [exc |-> "", val |-> Absent]

LastInit ==
    [op |-> "init", prop |-> "", rows |-> NoResponse, exc |-> "",
     ret |-> Absent, hit |-> FALSE, cached |-> Absent, first |-> FALSE,
     retry |-> FALSE, reqs |-> 0, fetched |-> NoOutcome]

(* Buoy.__init__(bouyid): self.id = bouyid; self.refresh() *)
Init ==
    /\ id = StationId
    /\ dict = refresh(EmptyDict)
    /\ requests = 0
    /\ last = LastInit
    /\ src = [p \in PropertySet |-> NoResponse]
    /\ latest = [p \in PropertySet |-> Absent]
    /\ pending = {}
    /\ fresh = PropertySet
    /\ stale = [p \in PropertySet |-> Absent]
    /\ inp = NotRun
    /\ out = NotRun

(* buoy.refresh() *)
Refresh ==
    /\ dict' = refresh(dict)
    /\ last' = [LastInit EXCEPT !.op = "refresh"]
    /\ src' = [p \in PropertySet |-> NoResponse]
    /\ latest' = [p \in PropertySet |-> Absent]
    /\ fresh' = PropertySet
    /\ stale' = [p \in PropertySet |-> dict[p]]
    /\ UNCHANGED <<id, requests, pending, inp, out>>

(* buoy.<p>, the property accessor: self._get(p), the service answering    *)
(* the request of this call with rows.                                     *)
Get(p, rows) ==
    LET f == fetch(dict, p, rows)
        g == _get(dict, p, rows)
        hit == dict[p] # Absent
    IN  /\ dict' = g.dict
        /\ requests' = requests + g.reqs
        /\ last' = [op |-> "get", prop |-> p, rows |-> rows, exc |-> g.exc,
                    ret |-> g.val, hit |-> hit, cached |-> dict[p],
                    first |-> p \in fresh, retry |-> p \in pending,
                    reqs |-> g.reqs,
                    fetched |-> [exc |-> f.exc, val |-> f.val]]
        /\ src' = IF g.exc = "" /\ ~hit THEN [src EXCEPT ![p] = rows] ELSE src
        /\ latest' = IF f.exc = "" THEN [latest EXCEPT ![p] = f.val] ELSE latest
        /\ pending' = IF g.exc # "" /\ ~hit THEN pending \cup {p}
                      ELSE pending \ {p}
        /\ fresh' = fresh \ {p}
        /\ UNCHANGED <<id, stale, inp, out>>

(* The properties the accesses of the model go to: an ordinary one, the    *)
(* one whose name contains 'depth', one the service has no column named    *)
(* after, and 'currents'.                                                  *)
AccessedProperties ==
    { "air_pressure_at_sea_level", "sea_floor_depth_below_sea_surface",
      "winds", "currents" }

(* An access issues one request; the model stops accessing after           *)
(* MaxRequests of them.                                                    *)
Access ==
    \E p \in AccessedProperties :
        /\ requests < MaxRequests
        /\ \E rows \in Responses(p) : Get(p, rows)

Next == Refresh \/ Access

Spec == Init /\ [][Next]_vars

----------------------------------------------------------------------------
(* parse_unit on its own: a row and a property name are drawn, then the    *)
(* function is applied.                                                    *)

ParseHeaders ==
    { Hdr("depth", "m"), Hdr("sea_floor_depth_below_sea_surface", "m"),
      Hdr("quality_flags", "") }

ParseValues == { Str("1.50"), Str("25.0"), Str(""), Str("n/a"), None }

ParseProps == { "depth", "sea_floor_depth_below_sea_surface",
                "quality_flags", "winds" }

ParseCells == { [h |-> h, v |-> v] : h \in ParseHeaders, v \in ParseValues }

DistinctHeaders(row) ==
    \A i, j \in 1..Len(row) : i # j => row[i].h # row[j].h

ParseRows == { r \in SeqsUpTo(ParseCells, MaxCols) : DistinctHeaders(r) }

InitParse ==
    /\ Init!1 /\ Init!2 /\ Init!3 /\ Init!4 /\ Init!5 /\ Init!6 /\ Init!7
    /\ Init!8 /\ Init!9
    /\ inp \in [prop : ParseProps, row : ParseRows]
    /\ out = NotRun

ApplyParseUnit ==
    /\ out = NotRun
    /\ out' = parse_unit(inp.prop, inp.row)
    /\ UNCHANGED <<id, dict, requests, last, src, latest, pending, fresh,
                   stale, inp>>

NextParse == ApplyParseUnit

SpecParse == InitParse /\ [][NextParse]_vars

(* fetch('currents') on its own: a response of up to MaxRows data rows is  *)
(* drawn, then a new handle fetches it.                                    *)

InitCurrents ==
    /\ Init!1 /\ Init!2 /\ Init!3 /\ Init!4 /\ Init!5 /\ Init!6 /\ Init!7
    /\ Init!8 /\ Init!9
    /\ inp \in [rows : SeqsUpTo(CurrentsRows, MaxRows) \cup {ExceptionReport}]
    /\ out = NotRun

FetchCurrents ==
    LET f == fetch(dict, "currents", inp.rows)
    IN  /\ out = NotRun
        /\ out' = [exc |-> f.exc, val |-> f.val]
        /\ dict' = f.dict
        /\ requests' = requests + f.reqs
        /\ UNCHANGED <<id, last, src, latest, pending, fresh, stale, inp>>

NextCurrents == FetchCurrents

SpecCurrents == InitCurrents /\ [][NextCurrents]_vars

----------------------------------------------------------------------------
(* Vocabulary of the properties *)

IsExceptionReport(rows) == rows # << >> /\ ContainsExceptionReport(rows[1])

(* Every value under a unit-tagged header is missing, empty or a number. *)
NumericCells(row) ==
    \A i \in 1..Len(row) :
        row[i].h.unit # "" =>
            \/ row[i].v = None
            \/ row[i].v.s = ""
            \/ row[i].v.s \in DOMAIN FloatText

HasText(row, h, texts) ==
    \E i \in 1..Len(row) : row[i].h = h /\ row[i].v.t = "str" /\ row[i].v.s \in texts

WellFormedTimes == { TimeA, TimeB }

(* A response a get of p can parse in full. *)
WellFormed(p, rows) ==
    IF p = "currents"
    THEN ~IsExceptionReport(rows) /\ \A i \in 1..Len(rows) : NumericCells(rows[i])
    ELSE /\ rows # << >>
         /\ ~IsExceptionReport(rows)
         /\ NumericCells(rows[1])
         /\ HasText(rows[1], LatHdr, DOMAIN FloatText)
         /\ HasText(rows[1], LonHdr, DOMAIN FloatText)
         /\ HasText(rows[1], DateTimeHdr, WellFormedTimes)

(* The value a response holds for p. *)
ParsedValue(p, rows) ==
    IF p = "currents" THEN _currents(rows).val ELSE parse_unit(p, rows[1]).val

(* A latitude, longitude or date_time field that is missing or malformed. *)
MalformedPosition(row) ==
    \/ ~HasText(row, LatHdr, DOMAIN FloatText)
    \/ ~HasText(row, LonHdr, DOMAIN FloatText)
    \/ ~HasText(row, DateTimeHdr, WellFormedTimes)

----------------------------------------------------------------------------
(* C1: once an access to p has succeeded, a later access to p before the   *)
(* next refresh issues no HTTP request.  As stated by the claim; the code  *)
(* violates it.                                                            *)
C1_NoSecondRequest ==
    (last.op = "get" /\ last.hit) => last.reqs = 0

(* C2: when the cache holds an entry for p, get(p) returns that entry and  *)
(* does not raise, whatever the service answers.  As stated by the claim;  *)
(* the code violates it.                                                   *)
C2_CachedEntryReturned ==
    (last.op = "get" /\ last.hit) => (last.exc = "" /\ last.ret = last.cached)

(* C3: for every property, currents included, a get on an uncached p whose *)
(* response is an exception report or has no data row raises               *)
(* AttributeError.  As stated by the claim; the code violates it.          *)
C3_NotFoundRaised ==
    (/\ last.op = "get"
     /\ ~last.hit
     /\ (last.rows = NoDataRow \/ IsExceptionReport(last.rows)))
    => (last.exc = "AttributeError" /\ last.ret = Absent)

(* C4: a get(p) that raises on an uncached p leaves p absent from the      *)
(* cache; the next get(p) issues a new request and, when the response is   *)
(* well formed, returns and caches the value parsed from it.               *)
C4_Step ==
    LET p == last'.prop
    IN  /\ (last'.op = "get" /\ requests' # requests) =>
              /\ (~last'.hit /\ last'.exc # "") => dict'[p] = Absent
              /\ last'.retry =>
                    /\ last'.reqs = 1
                    /\ requests' = requests + 1
                    /\ WellFormed(p, last'.rows) =>
                          /\ last'.exc = ""
                          /\ last'.ret = ParsedValue(p, last'.rows)
                          /\ dict'[p] = ParsedValue(p, last'.rows)
        /\ \A q \in pending' : dict'[q] = Absent

C5_CacheHoldsLatest ==
    \A p \in PropertySet : dict[p] = Absent \/ dict[p] = latest[p]

(* C6: for a single-row property and a first data row whose latitude,      *)
(* longitude or date_time is missing or malformed, fetch raises nothing,   *)
(* leaves lat, lon and datetime None and returns the observation parsed    *)
(* for p.  As stated by the claim; the code violates it.                   *)
C6_MalformedSwallowed ==
    (/\ last.op = "get"
     /\ last.prop \in SingleRowProperties
     /\ last.rows # << >>
     /\ ~IsExceptionReport(last.rows)
     /\ MalformedPosition(last.rows[1]))
    => (/\ last.fetched.exc = ""
        /\ dict["lat"] = None /\ dict["lon"] = None /\ dict["datetime"] = None
        /\ last.fetched.val = parse_unit(last.prop, last.rows[1]).val)

(* C9: after refresh() no observation property is cached, lat, lon and     *)
(* datetime are None, depth, station_id and sensor_id are absent, the      *)
(* station id is unchanged, and the next get of any property issues a new  *)
(* request and returns the value of the new response.                      *)
C9_Step ==
    /\ last'.op = "refresh" =>
          /\ \A p \in PropertySet : dict'[p] = Absent
          /\ dict'["lat"] = None /\ dict'["lon"] = None
          /\ dict'["datetime"] = None
          /\ dict'["depth"] = Absent /\ dict'["station_id"] = Absent
          /\ dict'["sensor_id"] = Absent
          /\ coords(dict') = <<None, None>>
          /\ depth(dict') = None /\ datetime(dict') = None
          /\ id' = id
    /\ (last'.op = "get" /\ requests' # requests /\ last'.first) =>
          /\ last'.reqs = 1
          /\ requests' = requests + 1
          /\ last'.exc = "" => last'.ret = ParsedValue(last'.prop, last'.rows)

C9_RefreshForgets == [][C9_Step]_vars

C9_Witness ==
    /\ last.op = "get"
    /\ last.first
    /\ last.exc = ""
    /\ stale[last.prop] # Absent
    /\ last.ret # stale[last.prop]
    /\ id = StationId

(* C10: when get(p) of a single-row property returns v, the incidental     *)
(* fields of the handle are those of the response row v was parsed from.   *)
(* As stated by the claim; the code violates it.                           *)
C10_FieldsOfSameRow ==
    (/\ last.op = "get"
     /\ last.exc = ""
     /\ last.prop \in SingleRowProperties)
    => \A k \in IncidentalKeys :
          dict[k] = fetch(EmptyDict, last.prop, src[last.prop]).dict[k]

----------------------------------------------------------------------------
(* C7: parse_unit(prop, row) returns the Observation of the header         *)
(* 'prop (unit)' when its value is a non-empty number, also when other     *)
(* headers of the row contain prop as a substring; None when no header     *)
(* contains prop; None when the value under 'prop (unit)' is empty; the    *)
(* raw string when the header 'prop' carries no unit.  As stated by the    *)
(* claim; the code violates it.                                            *)
C7_ParseUnit ==
    out # NotRun =>
        /\ \A i \in 1..Len(inp.row) :
              LET c == inp.row[i]
              IN  c.h.name = inp.prop =>
                    /\ (c.h.unit # "" /\ c.v.t = "str"
                        /\ c.v.s \in DOMAIN FloatText) =>
                          /\ out.exc = ""
                          /\ out.val.t = "Observation"
                          /\ out.val.v = FloatText[c.v.s]
                          /\ out.val.unit = c.h.unit
                    /\ (c.h.unit # "" /\ ~Truthy(c.v)) => out = Return(None)
                    /\ c.h.unit = "" => out = Return(c.v)
        /\ (\A i \in 1..Len(inp.row) : ~In(inp.prop, inp.row[i].h)) =>
              out = Return(None)

====
